---- MODULE Spec2Model ----
(***************************************************************************)
(* State-machine model of pc_app/gpu_fan_controller.py: the control loop   *)
(* run(port, high, low) with the helpers it calls (find_esp32_serial_port, *)
(* open_serial, verify_identity, send_fan_speed, _calculate_speed,         *)
(* GpuMonitor).  One action per statement of run() that touches the        *)
(* device, the sensor or the process, so that a signal or an I/O error can *)
(* arrive between any two of them.                                         *)
(*                                                                         *)
(* Text received from the device is a sequence of one-character strings,   *)
(* so that strip(), decode(errors="ignore"), "\n".join and the substring   *)
(* test are computed, not assumed.  Bytes written to the device are TLA+   *)
(* strings built the way the f-string builds them.                         *)
(***************************************************************************)
EXTENDS Integers, Sequences, FiniteSets, TLC

VARIABLES
    pc,             \* position in run()
    port,           \* the port argument / resolved device name, or NoPort
    ports,          \* what serial.tools.list_ports.comports() enumerates
    low, high,      \* the thresholds run() was called with
    ser,            \* the serial session: "none", "open", "closed"
    gpu,            \* the NVML wrapper: "none", "init", "shutdown"
    rx,             \* lines the device will answer the identity request with
    rx_read,        \* what readline() has returned so far (raw)
    response,       \* verify_identity's local list
    clock,          \* clock steps elapsed since verify_identity set its deadline
    identity,       \* verify_identity's return value, FALSE before it returns
    current_speed,  \* run()'s local: last speed handed to send_fan_speed
    temp,           \* last value of gpu.temperature()
    last_temp,      \* history: the value of temp when the tick started
    desired_speed,  \* run()'s local
    written,        \* every command written to the serial port, in order
    speed_arg,      \* history: the speed passed to the call that wrote last
    ticks,          \* ticks started so far
    pending,        \* what unwinds through the finally block
    drained,        \* history: the finally block has written its command
    exit_status,    \* how the process ended, "running" before
    tick_speed,     \* history: current_speed when the tick started
    tick_written,   \* history: Len(written) when the tick started
    cancel_at,      \* history: pc at which the first signal arrived
    cancel_kind,    \* history: which signal that was
    fatal_at,       \* history: pc at which an error or failed check struck
    calls,          \* _calculate_speed called on its own: << reading, result >>
    client,         \* ComputerControllerMQTT.client: "None" or "Client"
    connected,      \* ComputerControllerMQTT.connected
    mq_pc,          \* where the thread that calls the methods is
    command,        \* send_command's argument
    published,      \* every call of client.publish that returned, in order
    returned,       \* what the last send_command returned, "none" before
    checked,        \* history: connected as send_command's test read it
    base,           \* history: Len(published) when send_command was called
    established     \* history: on_connect saw rc 0 and nothing has undone it

run_vars == << pc, port, ports, low, high, ser, gpu, rx, rx_read, response, clock,
           identity, current_speed, temp, desired_speed, written, speed_arg,
           ticks, pending, drained, exit_status, tick_speed, tick_written,
           cancel_at, cancel_kind, fatal_at, last_temp >>

\* the state of the functions exercised on their own, outside run()
mqtt_vars == << client, connected, mq_pc, command, published, returned,
                checked, base, established >>

harness_vars == << calls, mqtt_vars >>

vars == << run_vars, harness_vars >>

\* Python's None where a vendor or product identifier is expected
None == "None"
\* Python's None where a device name is expected
NoPort == << >>

-----------------------------------------------------------------------------
(* Bounds of the model *)

\* ticks of the control loop a run may start
MaxTicks == 3
\* clock steps per second: the resolution at which time is observed
TimeScale == 2
\* calls of send_fan_speed made directly, outside run()
MaxSends == 2
\* lines the device sends in answer to the identity request
\* _calculate_speed on its own: the widest high - low, and the lowest low
MaxWidth == 40
\* how many calls of a function exercised on its own are kept
MaxCalls == 2

\* find_esp32_serial_port on its own: the longest enumeration of ports
MaxPorts == 3

\* ComputerControllerMQTT: how many calls of client.publish are followed
MaxPublishes == 2

MaxLines == 3

-----------------------------------------------------------------------------
(* Program constants *)

\* serial.Serial(..., timeout=1): a readline() returns within one second
ReadTimeout == 1
\* verify_identity(ser, timeout=2.0)
IdentityTimeout == 2
\* the same two, in clock steps
ReadSteps == ReadTimeout * TimeScale
Deadline == IdentityTimeout * TimeScale
\* abs(desired_speed - current_speed) >= 2
Deadband == 2

ESP32_VID_PID_CANDIDATES ==
    { << "10C4", "EA60" >>,
      << "1A86", "7523" >>,
      << "303A", "1001" >> }

\* the text "ComputerController" that verify_identity looks for
DEVICE_NAME ==
    << "C","o","m","p","u","t","e","r","C","o","n","t","r","o","l","l","e","r" >>

\* the terminal marker line "OK"
OK_LINE == << "O", "K" >>

-----------------------------------------------------------------------------
(* Text helpers: Python's str operations on sequences of characters *)

Whitespace == { " ", "\t", "\r", "\n" }

\* a byte that is not valid UTF-8; bytes.decode(errors="ignore") drops it
BadByte == "\\xff"

\* needle in haystack
Contains(haystack, needle) ==
    \E i \in 1..(Len(haystack) - Len(needle) + 1) :
        SubSeq(haystack, i, i + Len(needle) - 1) = needle

\* bytes.decode(errors="ignore")
RECURSIVE decode(_)
decode(bytes) ==
    IF bytes = << >> THEN << >>
    ELSE IF Head(bytes) = BadByte THEN decode(Tail(bytes))
    ELSE << Head(bytes) >> \o decode(Tail(bytes))

RECURSIVE lstrip(_)
lstrip(s) ==
    IF s = << >> THEN << >>
    ELSE IF Head(s) \in Whitespace THEN lstrip(Tail(s))
    ELSE s

RECURSIVE rstrip(_)
rstrip(s) ==
    IF s = << >> THEN << >>
    ELSE IF s[Len(s)] \in Whitespace THEN rstrip(SubSeq(s, 1, Len(s) - 1))
    ELSE s

\* str.strip()
strip(s) == rstrip(lstrip(s))

\* a faulty join that puts nothing between the lines; C10 must reject it
RECURSIVE join_NoSeparator(_)
join_NoSeparator(lines) ==
    IF lines = << >> THEN << >>
    ELSE lines[1] \o join_NoSeparator(Tail(lines))

\* "\n".join(lines)
RECURSIVE join(_)
join(lines) ==
    IF lines = << >> THEN << >>
    ELSE IF Len(lines) = 1 THEN lines[1]
    ELSE lines[1] \o << "\n" >> \o join(Tail(lines))

\* ser.readline().decode(errors="ignore").strip()
DecodedLine(raw) == strip(decode(raw))

-----------------------------------------------------------------------------
(* find_esp32_serial_port *)

TTYUSB == << "t","t","y","U","S","B" >>
TTYACM == << "t","t","y","A","C","M" >>

VidPidMatch(p) ==
    /\ p.vid # None
    /\ p.pid # None
    /\ << p.vid, p.pid >> \in ESP32_VID_PID_CANDIDATES

NameMatch(p) == Contains(p.device, TTYUSB) \/ Contains(p.device, TTYACM)

\* index of the first port of plist with a known VID/PID, 0 when none
FirstVidPid(plist) ==
    IF \E i \in 1..Len(plist) : VidPidMatch(plist[i])
    THEN CHOOSE i \in 1..Len(plist) :
            /\ VidPidMatch(plist[i])
            /\ \A j \in 1..(i - 1) : ~VidPidMatch(plist[j])
    ELSE 0

\* index of the first port of plist with a serial-device name, 0 when none
FirstName(plist) ==
    IF \E i \in 1..Len(plist) : NameMatch(plist[i])
    THEN CHOOSE i \in 1..Len(plist) :
            /\ NameMatch(plist[i])
            /\ \A j \in 1..(i - 1) : ~NameMatch(plist[j])
    ELSE 0

\* a faulty search that tries the name heuristic first; C13 must reject it
find_esp32_serial_port_NameFirst(plist) ==
    IF FirstName(plist) # 0
    THEN plist[FirstName(plist)].device
    ELSE IF FirstVidPid(plist) # 0
    THEN plist[FirstVidPid(plist)].device
    ELSE NoPort

find_esp32_serial_port(plist) ==
    IF FirstVidPid(plist) # 0
    THEN plist[FirstVidPid(plist)].device
    ELSE IF FirstName(plist) # 0
    THEN plist[FirstName(plist)].device
    ELSE NoPort

-----------------------------------------------------------------------------
(* send_fan_speed and _calculate_speed *)

Max(a, b) == IF a >= b THEN a ELSE b
Min(a, b) == IF a <= b THEN a ELSE b
Abs(a) == IF a < 0 THEN -a ELSE a

\* a faulty clamp that forgets the lower bound; C6 must reject it
ClampSpeed_NoLowerBound(speed) == Min(100, speed)

\* speed = max(0, min(100, speed))
ClampSpeed(speed) == Max(0, Min(100, speed))

\* f"gpufan {speed}\n"
FanCommand(speed) == "gpufan " \o ToString(ClampSpeed(speed)) \o "\n"

IDENTITY_COMMAND == "identity\n"

(* IEEE-754 double arithmetic, as far as _calculate_speed needs it.  A      *)
(* positive double is [m |-> << top, l1, l2, l3 >>, e |-> e], standing for *)
(* (top * 2^52 + l1 * 2^34 + l2 * 2^16 + l3) * 2^-(52 + e): the mantissa   *)
(* is cut into limbs of 18, 18 and 16 bits so that every intermediate      *)
(* value stays below 2^31.  The operands are integers 0 < d < w < 2^13.    *)

\* carry from the low limbs upward
Limbs(top, l1, l2, l3) ==
    LET x2 == l2 + (l3 \div 2^16)
        x1 == l1 + (x2 \div 2^18)
    IN  << top + (x1 \div 2^18), x1 % 2^18, x2 % 2^18, l3 % 2^16 >>

\* 1 when a discarded part rounds the kept part up (nearest, ties to even)
RoundUp(discarded, half, kept) ==
    IF discarded > half \/ (discarded = half /\ kept % 2 = 1) THEN 1 ELSE 0

\* d / float(w): 53 significant bits of the quotient by long division, the
\* remainder deciding the rounding
FloatDiv(d, w) ==
    LET e  == CHOOSE k \in 1..13 :
                  d * 2^k >= w /\ (k = 1 \/ d * 2^(k - 1) < w)
        r0 == d * 2^e - w
        x1 == r0 * 2^18
        r1 == x1 % w
        x2 == r1 * 2^18
        r2 == x2 % w
        x3 == r2 * 2^16
        r3 == x3 % w
        l3 == x3 \div w
    IN  [ m |-> Limbs(1, x1 \div w, x2 \div w, l3 + RoundUp(2 * r3, w, l3)),
          e |-> e ]

\* ratio * 100: the exact product, rounded back to 53 significant bits
FloatMul100(f) ==
    LET c3   == f.m[4] * 100
        c2   == f.m[3] * 100 + (c3 \div 2^16)
        c1   == f.m[2] * 100 + (c2 \div 2^18)
        top  == f.m[1] * 100 + (c1 \div 2^18)
        p3   == c3 % 2^16
        s    == IF top < 128 THEN 6 ELSE IF top < 256 THEN 7 ELSE 8
        kept == p3 \div 2^s
        up   == RoundUp(p3 % 2^s, 2^(s - 1), kept)
    IN  [ m |-> Limbs(top, c1 % 2^18, c2 % 2^18, (kept + up) * 2^s),
          e |-> f.e ]

\* int(round(x)) for a double x: nearest integer, an exact half to even
PyRound(f) ==
    LET whole == f.m[1] \div 2^f.e
        frac  == f.m[1] % 2^f.e
        half  == 2^(f.e - 1)
        rest  == f.m[2] # 0 \/ f.m[3] # 0 \/ f.m[4] # 0
    IN  IF frac > half \/ (frac = half /\ rest) THEN whole + 1
        ELSE IF frac < half THEN whole
        ELSE IF whole % 2 = 0 THEN whole ELSE whole + 1

\* a faulty policy that measures the reading from high; C12 must reject it
_calculate_speed_Inverted(t, lo, hi) ==
    IF t <= lo THEN 0
    ELSE IF t >= hi THEN 100
    ELSE PyRound(FloatMul100(FloatDiv(hi - t, hi - lo)))

\* if temp <= low: return 0
\* if temp >= high: return 100
\* ratio = (temp - low) / float(high - low); return int(round(ratio * 100))
_calculate_speed(t, lo, hi) ==
    IF t <= lo THEN 0
    ELSE IF t >= hi THEN 100
    ELSE PyRound(FloatMul100(FloatDiv(t - lo, hi - lo)))

-----------------------------------------------------------------------------
(* The environment: what the run can be given *)

\* readings gpu.temperature() can return
Temps == { 70, 72, 74, 75, 80, 81 }

\* << low, high >> pairs a run can be started with; the last one violates
\* low < high and gets past no check when run() is called directly
ThresholdPairs == { << 70, 80 >>, << 20, 120 >>, << 71, 171 >>, << 80, 70 >> }

DEV == << "/","d","e","v","/" >>
DevUSB0 == DEV \o TTYUSB \o << "0" >>
DevACM1 == DEV \o TTYACM \o << "1" >>
DevS0   == DEV \o << "t","t","y","S","0" >>

Port(device, vid, pid) == [ device |-> device, vid |-> vid, pid |-> pid ]

\* enumerations comports() can return
PortLists ==
    { << >>,
      << Port(DevS0, None, None) >>,
      << Port(DevS0, None, None), Port(DevACM1, None, None),
         Port(DevUSB0, "10C4", "EA60") >>,
      << Port(DevS0, "1A86", None), Port(DevUSB0, "10C4", "7523"),
         Port(DevACM1, None, "1001") >> }

\* raw lines readline() can return, line terminator removed
LineEmpty      == << >>
LineBlank      == << " " >>
LinePaddedOK   == << " " >> \o OK_LINE
LineGarbage    == << "g","a","r","b","a","g","e" >>
LineName       == DEVICE_NAME \o << " ","v","1",".","2" >>
LineComputer   == SubSeq(DEVICE_NAME, 1, 8)
LineController == SubSeq(DEVICE_NAME, 9, 18)
LineBadByte    == LineComputer \o << BadByte >> \o LineController

RawLines == { LineEmpty, LineBlank, OK_LINE, LinePaddedOK, LineGarbage,
              LineName, LineComputer, LineController, LineBadByte }

RECURSIVE SeqsUpTo(_, _)
SeqsUpTo(S, n) ==
    IF n = 0 THEN { << >> }
    ELSE LET shorter == SeqsUpTo(S, n - 1)
         IN  shorter \cup { Append(s, x) : s \in shorter, x \in S }

\* answers the device can give to an identity request
Responses == SeqsUpTo(RawLines, MaxLines)

-----------------------------------------------------------------------------
(* Initial state: the script is started (pc = "main") or run() is called   *)
(* directly (pc = "start")                                                 *)

\* ComputerControllerMQTT.__init__: self.client = None; self.connected = False
__init__ ==
    /\ client = "None"
    /\ connected = FALSE
    /\ mq_pc = "idle"
    /\ command = "none"
    /\ published = << >>
    /\ returned = "none"
    /\ checked = FALSE
    /\ base = 0
    /\ established = FALSE

Init ==
    /\ pc \in { "main", "start" }
    /\ port \in { NoPort, DevUSB0 }
    /\ ports \in PortLists
    /\ \E th \in ThresholdPairs : low = th[1] /\ high = th[2]
    /\ ser = "none"
    /\ gpu = "none"
    /\ rx = << >>
    /\ rx_read = << >>
    /\ response = << >>
    /\ clock = 0
    /\ identity = FALSE
    /\ current_speed = 0
    /\ temp = 0
    /\ last_temp = 0
    /\ desired_speed = 0
    /\ written = << >>
    /\ speed_arg = 0
    /\ ticks = 0
    /\ pending = "none"
    /\ drained = FALSE
    /\ exit_status = "running"
    /\ tick_speed = 0
    /\ tick_written = 0
    /\ cancel_at = "none"
    /\ cancel_kind = "none"
    /\ fatal_at = "none"
    /\ calls = << >>
    /\ __init__

\* the process ends at position p of run() with the given status
Exit(status) ==
    /\ pc' = "exited"
    /\ exit_status' = status

\* an error or failed check strikes at the current position
Fatal == fatal_at' = IF fatal_at = "none" THEN pc ELSE fatal_at

-----------------------------------------------------------------------------
(* __main__ and the start of run() *)

\* if args.low >= args.high: LOGGER.error(...); sys.exit(1)
MainCheck ==
    /\ pc = "main"
    /\ IF low >= high
       THEN Exit("exit1") /\ Fatal
       ELSE pc' = "start" /\ UNCHANGED << exit_status, fatal_at >>
    /\ UNCHANGED << speed_arg, drained >>
    /\ UNCHANGED << port, ports, low, high, ser, gpu, rx, rx_read, response,
                    clock, identity, current_speed, temp, desired_speed,
                    written, ticks, pending, tick_speed, tick_written,
                    cancel_at, cancel_kind >>
    /\ UNCHANGED << last_temp, harness_vars >>

\* if port is None: port = find_esp32_serial_port(); if port is None: sys.exit(1)
Locate ==
    /\ pc = "start"
    /\ LET found == IF port = NoPort THEN find_esp32_serial_port(ports) ELSE port
       IN  /\ port' = found
           /\ IF found = NoPort
              THEN Exit("exit1") /\ Fatal
              ELSE pc' = "open" /\ UNCHANGED << exit_status, fatal_at >>
    /\ ports' = << >>
    /\ UNCHANGED << speed_arg, drained >>
    /\ UNCHANGED << low, high, ser, gpu, rx, rx_read, response, clock,
                    identity, current_speed, temp, desired_speed, written,
                    ticks, pending, tick_speed, tick_written, cancel_at,
                    cancel_kind >>
    /\ UNCHANGED << last_temp, harness_vars >>

\* ser = open_serial(port): serial.Serial(...) opens the port or raises
OpenSerial ==
    /\ pc = "open"
    /\ \/ ser' = "open" /\ pc' = "verify"
          /\ UNCHANGED << exit_status, fatal_at >>
       \/ Exit("exception") /\ Fatal /\ UNCHANGED ser
    /\ UNCHANGED << speed_arg, drained >>
    /\ UNCHANGED << port, ports, low, high, gpu, rx, rx_read, response, clock,
                    identity, current_speed, temp, desired_speed, written,
                    ticks, pending, tick_speed, tick_written, cancel_at,
                    cancel_kind >>
    /\ UNCHANGED << last_temp, harness_vars >>

-----------------------------------------------------------------------------
(* verify_identity(ser, timeout=2.0) *)

\* ser.reset_input_buffer(); ser.write(b"identity\n"); ser.flush();
\* deadline = time.time() + timeout; response = [].  The write raises when
\* the port fails; otherwise the device answers with some lines.
VerifyBegin ==
    /\ pc = "verify"
    /\ \/ /\ written' = Append(written, IDENTITY_COMMAND)
          /\ rx' \in Responses
          /\ pc' = "verify_loop"
          /\ UNCHANGED << exit_status, fatal_at >>
       \/ /\ Exit("exception") /\ Fatal
          /\ UNCHANGED << written, rx >>
    /\ rx_read' = << >>
    /\ response' = << >>
    /\ clock' = 0
    /\ UNCHANGED << speed_arg, drained >>
    /\ UNCHANGED << port, ports, low, high, ser, gpu, identity, current_speed,
                    temp, desired_speed, ticks, pending, tick_speed,
                    tick_written, cancel_at, cancel_kind >>
    /\ UNCHANGED << last_temp, harness_vars >>

\* a faulty read on a session opened without a read timeout: readline()
\* waits for a line however long the device stays silent; C18 must reject it
VerifyRead_NoReadTimeout ==
    /\ pc = "verify_loop"
    /\ clock < Deadline
    /\ rx # << >>
    /\ \E dt \in 0..ReadSteps :
        LET line == DecodedLine(Head(rx))
        IN  /\ clock' = clock + dt
            /\ rx' = Tail(rx)
            /\ rx_read' = Append(rx_read, Head(rx))
            /\ IF line = << >>
               THEN UNCHANGED << response, pc >>
               ELSE /\ response' = Append(response, line)
                    /\ pc' = IF line = OK_LINE THEN "verify_join"
                             ELSE "verify_loop"
    /\ UNCHANGED << port, ports, low, high, ser, gpu, identity, current_speed,
                    temp, desired_speed, written, ticks, pending, exit_status,
                    tick_speed, tick_written, cancel_at, cancel_kind,
                    fatal_at, speed_arg, drained, last_temp, harness_vars >>

\* one pass of: while time.time() < deadline:
\*                  line = ser.readline().decode(errors="ignore").strip()
\*                  if not line: continue
\*                  response.append(line)
\*                  if line == "OK": break
\* readline() returns the next line the device sent, or b"" after the read
\* timeout when the device stays silent
VerifyRead ==
    /\ pc = "verify_loop"
    /\ clock < Deadline
    /\ \E dt \in 0..ReadSteps :
        LET raw  == IF rx = << >> THEN << >> ELSE Head(rx)
            line == DecodedLine(raw)
        IN  /\ rx = << >> => dt = ReadSteps
            /\ clock' = clock + dt
            /\ rx' = IF rx = << >> THEN << >> ELSE Tail(rx)
            /\ rx_read' = Append(rx_read, raw)
            /\ IF line = << >>
               THEN UNCHANGED << response, pc >>
               ELSE /\ response' = Append(response, line)
                    /\ pc' = IF line = OK_LINE THEN "verify_join"
                             ELSE "verify_loop"
    /\ UNCHANGED << speed_arg, drained >>
    /\ UNCHANGED << port, ports, low, high, ser, gpu, identity, current_speed,
                    temp, desired_speed, written, ticks, pending, exit_status,
                    tick_speed, tick_written, cancel_at, cancel_kind,
                    fatal_at >>
    /\ UNCHANGED << last_temp, harness_vars >>

\* the while condition fails: the deadline has passed
VerifyTimeout ==
    /\ pc = "verify_loop"
    /\ ~(clock < Deadline)
    /\ pc' = "verify_join"
    /\ UNCHANGED << speed_arg, drained >>
    /\ UNCHANGED << port, ports, low, high, ser, gpu, rx, rx_read, response,
                    clock, identity, current_speed, temp, desired_speed,
                    written, ticks, pending, exit_status, tick_speed,
                    tick_written, cancel_at, cancel_kind, fatal_at >>
    /\ UNCHANGED << last_temp, harness_vars >>

\* joined = "\n".join(response); return "ComputerController" in joined
IdentityResult(lines) == Contains(join(lines), DEVICE_NAME)

VerifyReturn ==
    /\ pc = "verify_join"
    /\ identity' = IdentityResult(response)
    /\ pc' = "check_identity"
    /\ UNCHANGED << speed_arg, drained >>
    /\ UNCHANGED << port, ports, low, high, ser, gpu, rx, rx_read, response,
                    clock, current_speed, temp, desired_speed, written, ticks,
                    pending, exit_status, tick_speed, tick_written, cancel_at,
                    cancel_kind, fatal_at >>
    /\ UNCHANGED << last_temp, harness_vars >>

-----------------------------------------------------------------------------
(* run(): from the identity check to the loop *)

\* a faulty check that goes on whatever verify_identity returned; C4 must
\* reject it
CheckIdentity_NoAbort ==
    /\ pc = "check_identity"
    /\ pc' = "gpu_init"
    /\ rx' = << >>
    /\ rx_read' = << >>
    /\ response' = << >>
    /\ clock' = 0
    /\ UNCHANGED << port, ports, low, high, ser, gpu, identity, current_speed,
                    temp, desired_speed, written, speed_arg, ticks, pending,
                    drained, exit_status, tick_speed, tick_written, cancel_at,
                    cancel_kind, fatal_at >>
    /\ UNCHANGED << last_temp, harness_vars >>

\* if not verify_identity(ser): LOGGER.error(...); sys.exit(1)
CheckIdentity ==
    /\ pc = "check_identity"
    /\ IF identity
       THEN pc' = "gpu_init" /\ UNCHANGED << exit_status, fatal_at >>
       ELSE Exit("exit1") /\ Fatal
    /\ rx' = << >>
    /\ rx_read' = << >>
    /\ response' = << >>
    /\ clock' = 0
    /\ UNCHANGED << speed_arg, drained >>
    /\ UNCHANGED << port, ports, low, high, ser, gpu, identity, current_speed,
                    temp, desired_speed, written, ticks, pending, tick_speed,
                    tick_written, cancel_at, cancel_kind >>
    /\ UNCHANGED << last_temp, harness_vars >>

\* gpu = GpuMonitor(index=0): nvmlInit() and the handle lookup, or they raise
GpuInit ==
    /\ pc = "gpu_init"
    /\ \/ gpu' = "init" /\ pc' = "init_send"
          /\ UNCHANGED << exit_status, fatal_at >>
       \/ Exit("exception") /\ Fatal /\ UNCHANGED gpu
    /\ UNCHANGED << speed_arg, drained >>
    /\ UNCHANGED << port, ports, low, high, ser, rx, rx_read, response, clock,
                    identity, current_speed, temp, desired_speed, written,
                    ticks, pending, tick_speed, tick_written, cancel_at,
                    cancel_kind >>
    /\ UNCHANGED << last_temp, harness_vars >>

\* a faulty start of the loop that leaves out the first command; C16 must
\* reject it
InitialSend_NoWrite ==
    /\ pc = "init_send"
    /\ current_speed' = 0
    /\ pc' = "read"
    /\ UNCHANGED << port, ports, low, high, ser, gpu, rx, rx_read, response,
                    clock, identity, temp, desired_speed, ticks, pending,
                    tick_speed, tick_written, cancel_at, cancel_kind,
                    exit_status, fatal_at, written, speed_arg, drained,
                    last_temp, harness_vars >>


\* current_speed = 0; send_fan_speed(ser, current_speed), outside the try
InitialSend ==
    /\ pc = "init_send"
    /\ current_speed' = 0
    /\ \/ /\ written' = Append(written, FanCommand(current_speed'))
          /\ speed_arg' = current_speed'
          /\ pc' = "read"
          /\ UNCHANGED << exit_status, fatal_at >>
       \/ /\ Exit("exception") /\ Fatal
          /\ UNCHANGED << written, speed_arg >>
    /\ UNCHANGED drained
    /\ UNCHANGED << port, ports, low, high, ser, gpu, rx, rx_read, response,
                    clock, identity, temp, desired_speed, ticks, pending,
                    tick_speed, tick_written, cancel_at, cancel_kind >>
    /\ UNCHANGED << last_temp, harness_vars >>

-----------------------------------------------------------------------------
(* run(): the loop, inside try *)

\* temp = gpu.temperature(): a reading, or NVML raises; the error is no
\* KeyboardInterrupt, so it unwinds through the finally block
ReadTemp ==
    /\ pc = "read"
    /\ ticks < MaxTicks
    /\ ticks' = ticks + 1
    /\ tick_speed' = current_speed
    /\ tick_written' = Len(written)
    /\ last_temp' = temp
    /\ \/ /\ temp' \in Temps
          /\ pc' = "decide"
          /\ UNCHANGED << pending, fatal_at >>
       \/ /\ pc' = "drain"
          /\ pending' = "exception"
          /\ Fatal
          /\ UNCHANGED temp
    /\ UNCHANGED << speed_arg, drained >>
    /\ UNCHANGED << port, ports, low, high, ser, gpu, rx, rx_read, response,
                    clock, identity, current_speed, desired_speed, written,
                    exit_status, cancel_at, cancel_kind >>
    /\ UNCHANGED harness_vars

\* a faulty deadband test, > where the code has >=; C5 must reject it
Decide_StrictDeadband ==
    /\ pc = "decide"
    /\ desired_speed' = _calculate_speed(temp, low, high)
    /\ IF Abs(desired_speed' - current_speed) > Deadband
       THEN current_speed' = desired_speed' /\ pc' = "send"
       ELSE UNCHANGED current_speed /\ pc' = "sleep"
    /\ UNCHANGED << port, ports, low, high, ser, gpu, rx, rx_read, response,
                    clock, identity, temp, written, speed_arg, ticks, pending,
                    drained, exit_status, tick_speed, tick_written, cancel_at,
                    cancel_kind, fatal_at >>
    /\ UNCHANGED << last_temp, harness_vars >>

\* a faulty step that goes to send without taking the new speed; C15 must
\* reject it
Decide_StaleSpeed ==
    /\ pc = "decide"
    /\ desired_speed' = _calculate_speed(temp, low, high)
    /\ IF Abs(desired_speed' - current_speed) >= Deadband
       THEN pc' = "send"
       ELSE pc' = "sleep"
    /\ UNCHANGED << port, ports, low, high, ser, gpu, rx, rx_read, response,
                    clock, identity, temp, written, speed_arg, ticks, pending,
                    drained, exit_status, tick_speed, tick_written, cancel_at,
                    cancel_kind, fatal_at, current_speed, last_temp,
                    harness_vars >>

\* desired_speed = _calculate_speed(temp, low, high)
\* if abs(desired_speed - current_speed) >= 2: current_speed = desired_speed
Decide ==
    /\ pc = "decide"
    /\ desired_speed' = _calculate_speed(temp, low, high)
    /\ IF Abs(desired_speed' - current_speed) >= Deadband
       THEN current_speed' = desired_speed' /\ pc' = "send"
       ELSE UNCHANGED current_speed /\ pc' = "sleep"
    /\ UNCHANGED << speed_arg, drained >>
    /\ UNCHANGED << port, ports, low, high, ser, gpu, rx, rx_read, response,
                    clock, identity, temp, written, ticks, pending,
                    exit_status, tick_speed, tick_written, cancel_at,
                    cancel_kind, fatal_at >>
    /\ UNCHANGED << last_temp, harness_vars >>

\* send_fan_speed(ser, current_speed): the write goes out, or it raises
Send ==
    /\ pc = "send"
    /\ \/ /\ written' = Append(written, FanCommand(current_speed))
          /\ speed_arg' = current_speed
          /\ pc' = "sleep"
          /\ UNCHANGED << pending, fatal_at >>
       \/ /\ pc' = "drain"
          /\ pending' = "exception"
          /\ Fatal
          /\ UNCHANGED << written, speed_arg >>
    /\ UNCHANGED drained
    /\ UNCHANGED << port, ports, low, high, ser, gpu, rx, rx_read, response,
                    clock, identity, current_speed, temp, desired_speed,
                    ticks, exit_status, tick_speed, tick_written, cancel_at,
                    cancel_kind >>
    /\ UNCHANGED << last_temp, harness_vars >>

\* time.sleep(1), then back to the top of the loop
Sleep ==
    /\ pc = "sleep"
    /\ pc' = "read"
    /\ UNCHANGED << speed_arg, drained >>
    /\ UNCHANGED << port, ports, low, high, ser, gpu, rx, rx_read, response,
                    clock, identity, current_speed, temp, desired_speed,
                    written, ticks, pending, exit_status, tick_speed,
                    tick_written, cancel_at, cancel_kind, fatal_at >>
    /\ UNCHANGED << last_temp, harness_vars >>

-----------------------------------------------------------------------------
(* run(): the finally block *)

\* send_fan_speed(ser, 0): when the write raises, the rest of the block is
\* skipped and the error leaves run()
Drain ==
    /\ pc = "drain"
    /\ \/ /\ written' = Append(written, FanCommand(0))
          /\ speed_arg' = 0
          /\ pc' = "close"
          /\ drained' = TRUE
          /\ UNCHANGED << exit_status, fatal_at >>
       \/ /\ Exit("exception") /\ Fatal
          /\ UNCHANGED << written, speed_arg, drained >>
    /\ UNCHANGED << port, ports, low, high, ser, gpu, rx, rx_read, response,
                    clock, identity, current_speed, temp, desired_speed,
                    ticks, pending, tick_speed, tick_written, cancel_at,
                    cancel_kind >>
    /\ UNCHANGED << last_temp, harness_vars >>

\* ser.close(): when it raises, gpu.shutdown() is skipped
Close ==
    /\ pc = "close"
    /\ \/ /\ ser' = "closed"
          /\ pc' = "shutdown"
          /\ UNCHANGED << exit_status, fatal_at >>
       \/ /\ Exit("exception") /\ Fatal
          /\ UNCHANGED ser
    /\ UNCHANGED << speed_arg, drained >>
    /\ UNCHANGED << port, ports, low, high, gpu, rx, rx_read, response, clock,
                    identity, current_speed, temp, desired_speed, written,
                    ticks, pending, tick_speed, tick_written, cancel_at,
                    cancel_kind >>
    /\ UNCHANGED << last_temp, harness_vars >>

\* gpu.shutdown(); then run() returns, or the pending error leaves it
Shutdown ==
    /\ pc = "shutdown"
    /\ gpu' = "shutdown"
    /\ Exit(IF pending = "exception" THEN "exception" ELSE "returned")
    /\ UNCHANGED << speed_arg, drained >>
    /\ UNCHANGED << port, ports, low, high, ser, rx, rx_read, response, clock,
                    identity, current_speed, temp, desired_speed, written,
                    ticks, pending, tick_speed, tick_written, cancel_at,
                    cancel_kind, fatal_at >>
    /\ UNCHANGED << last_temp, harness_vars >>

-----------------------------------------------------------------------------
(* Signals *)

\* positions inside the try block
TryPcs == { "read", "decide", "send", "sleep" }

\* the process ends on a signal: the locals of verify_identity are gone
ProcessGone ==
    /\ rx' = << >>
    /\ rx_read' = << >>
    /\ response' = << >>
    /\ clock' = 0

Cancelled(kind) ==
    /\ cancel_at' = IF cancel_at = "none" THEN pc ELSE cancel_at
    /\ cancel_kind' = IF cancel_at = "none" THEN kind ELSE cancel_kind

\* SIGINT: Python raises KeyboardInterrupt where the program is.  Inside the
\* try it is caught by "except KeyboardInterrupt" and the finally block
\* runs; anywhere else it leaves run().
Interrupt ==
    /\ pc # "exited"
    /\ Cancelled("SIGINT")
    /\ IF pc \in TryPcs
       THEN pc' = "drain" /\ pending' = "none" /\ UNCHANGED exit_status
       ELSE Exit("KeyboardInterrupt") /\ UNCHANGED pending
    /\ IF pc \in TryPcs
       THEN UNCHANGED << rx, rx_read, response, clock >>
       ELSE ProcessGone
    /\ UNCHANGED << speed_arg, drained >>
    /\ UNCHANGED << port, ports, low, high, ser, gpu, identity,
                    current_speed, temp, desired_speed, written, ticks,
                    tick_speed, tick_written, fatal_at >>
    /\ UNCHANGED << last_temp, harness_vars >>

\* SIGTERM: the script installs no handler, so the default action ends the
\* process where it is; no except or finally clause runs
Terminate ==
    /\ pc # "exited"
    /\ Cancelled("SIGTERM")
    /\ Exit("killed")
    /\ ProcessGone
    /\ UNCHANGED << speed_arg, drained >>
    /\ UNCHANGED << port, ports, low, high, ser, gpu, identity,
                    current_speed, temp, desired_speed, written, ticks,
                    pending, tick_speed, tick_written, fatal_at >>
    /\ UNCHANGED << last_temp, harness_vars >>

-----------------------------------------------------------------------------

Next ==
    \/ MainCheck
    \/ Locate
    \/ OpenSerial
    \/ VerifyBegin
    \/ VerifyRead
    \/ VerifyTimeout
    \/ VerifyReturn
    \/ CheckIdentity
    \/ GpuInit
    \/ InitialSend
    \/ ReadTemp
    \/ Decide
    \/ Send
    \/ Sleep
    \/ Drain
    \/ Close
    \/ Shutdown
    \/ Interrupt
    \/ Terminate

Spec == Init /\ [][Next]_vars

-----------------------------------------------------------------------------
(* send_fan_speed called on its own, on an open session, with any speed *)

\* speeds a caller can pass, the range of a duty percentage and beyond
SpeedInputs == { -5, -1, 0, 1, 50, 99, 100, 101, 150 }

SendInit ==
    /\ pc = "call_send"
    /\ port = DevUSB0
    /\ ports = << >>
    /\ low = 70
    /\ high = 80
    /\ ser = "open"
    /\ gpu = "none"
    /\ rx = << >>
    /\ rx_read = << >>
    /\ response = << >>
    /\ clock = 0
    /\ identity = TRUE
    /\ current_speed = 0
    /\ temp = 0
    /\ last_temp = 0
    /\ desired_speed = 0
    /\ written = << >>
    /\ speed_arg = 0
    /\ ticks = 0
    /\ pending = "none"
    /\ drained = FALSE
    /\ exit_status = "running"
    /\ tick_speed = 0
    /\ tick_written = 0
    /\ cancel_at = "none"
    /\ cancel_kind = "none"
    /\ fatal_at = "none"
    /\ calls = << >>
    /\ __init__

\* send_fan_speed(ser, speed): the command goes out, or the write raises
CallSend ==
    /\ pc = "call_send"
    /\ Len(written) < MaxSends
    /\ \E speed \in SpeedInputs :
        \/ /\ written' = Append(written, FanCommand(speed))
           /\ speed_arg' = speed
           /\ UNCHANGED << pc, exit_status, fatal_at >>
        \/ /\ Exit("exception") /\ Fatal
           /\ UNCHANGED << written, speed_arg >>
    /\ UNCHANGED << port, ports, low, high, ser, gpu, rx, rx_read, response,
                    clock, identity, current_speed, temp, desired_speed,
                    ticks, pending, drained, tick_speed, tick_written,
                    cancel_at, cancel_kind >>
    /\ UNCHANGED << last_temp, harness_vars >>

SendSpec == (Init \/ SendInit) /\ [][Next \/ CallSend]_vars

-----------------------------------------------------------------------------
(* _calculate_speed called on its own, at any readings around and between  *)
(* any thresholds low < high                                               *)

PolicyLows == { 20, 70 }

\* the state of run() when only a function of the module is exercised
Idle ==
    /\ port = NoPort
    /\ ports = << >>
    /\ ser = "none"
    /\ gpu = "none"
    /\ rx = << >>
    /\ rx_read = << >>
    /\ response = << >>
    /\ clock = 0
    /\ identity = FALSE
    /\ current_speed = 0
    /\ temp = 0
    /\ last_temp = 0
    /\ desired_speed = 0
    /\ written = << >>
    /\ speed_arg = 0
    /\ ticks = 0
    /\ pending = "none"
    /\ drained = FALSE
    /\ exit_status = "running"
    /\ tick_speed = 0
    /\ tick_written = 0
    /\ cancel_at = "none"
    /\ cancel_kind = "none"
    /\ fatal_at = "none"

PolicyInit ==
    /\ pc = "call_policy"
    /\ \E lo \in PolicyLows, w \in 1..MaxWidth : low = lo /\ high = lo + w
    /\ Idle
    /\ calls = << >>
    /\ __init__

\* _calculate_speed(temp, low, high) at one more reading
CallPolicy ==
    /\ pc = "call_policy"
    /\ Len(calls) < MaxCalls
    /\ \E t \in (low - 1)..(high + 1) :
          calls' = Append(calls, << t, _calculate_speed(t, low, high) >>)
    /\ UNCHANGED << run_vars, mqtt_vars >>

PolicySpec == PolicyInit /\ [][CallPolicy]_vars

-----------------------------------------------------------------------------
(* find_esp32_serial_port called on its own, on any enumeration of ports   *)

\* the identifiers a port can report: none, one of the two, a known pair,
\* the vendor of one known pair with the product of another
PortIds ==
    { << None, None >>, << "1A86", None >>, << None, "1001" >>,
      << "10C4", "EA60" >>, << "10C4", "7523" >> }

PortRecords ==
    { Port(d, id[1], id[2]) : d \in { DevUSB0, DevACM1, DevS0 }, id \in PortIds }

\* enumerations of up to MaxPorts ports, each device listed once
LocateLists ==
    { l \in SeqsUpTo(PortRecords, MaxPorts) :
        \A i, j \in 1..Len(l) : i # j => l[i].device # l[j].device }

LocateInit ==
    /\ pc = "call_locate"
    /\ low = 70
    /\ high = 80
    /\ Idle
    /\ calls = << >>
    /\ __init__

\* ports = list(serial.tools.list_ports.comports())
Enumerate ==
    /\ pc = "call_locate"
    /\ ports' \in LocateLists
    /\ pc' = "enumerated"
    /\ UNCHANGED << port, low, high, ser, gpu, rx, rx_read, response, clock,
                    identity, current_speed, temp, desired_speed, written,
                    speed_arg, ticks, pending, drained, exit_status,
                    tick_speed, tick_written, cancel_at, cancel_kind,
                    fatal_at >>
    /\ UNCHANGED << last_temp, harness_vars >>

\* the two loops of find_esp32_serial_port and its return
CallLocate ==
    /\ pc = "enumerated"
    /\ port' = find_esp32_serial_port(ports)
    /\ pc' = "located"
    /\ UNCHANGED << ports, low, high, ser, gpu, rx, rx_read, response, clock,
                    identity, current_speed, temp, desired_speed, written,
                    speed_arg, ticks, pending, drained, exit_status,
                    tick_speed, tick_written, cancel_at, cancel_kind,
                    fatal_at >>
    /\ UNCHANGED << last_temp, harness_vars >>

LocateSpec == LocateInit /\ [][Enumerate \/ CallLocate]_vars

-----------------------------------------------------------------------------
(* The loop of verify_identity on its own, from the point where the        *)
(* request is written and the deadline set.  The interpreter keeps         *)
(* executing the function, which the weak fairness of its steps says.      *)

\* what the device answers: nothing, empty lines, lines that are not "OK",
\* and a line that is
VerifyResponses ==
    SeqsUpTo({ LineEmpty, LineGarbage, LineName, LinePaddedOK }, MaxLines)

VerifyInit ==
    /\ pc = "verify_loop"
    /\ port = DevUSB0
    /\ ser = "open"
    /\ low = 70
    /\ high = 80
    /\ ports = << >>
    /\ gpu = "none"
    /\ rx \in VerifyResponses
    /\ rx_read = << >>
    /\ response = << >>
    /\ clock = 0
    /\ identity = FALSE
    /\ current_speed = 0
    /\ temp = 0
    /\ last_temp = 0
    /\ desired_speed = 0
    /\ written = << IDENTITY_COMMAND >>
    /\ speed_arg = 0
    /\ ticks = 0
    /\ pending = "none"
    /\ drained = FALSE
    /\ exit_status = "running"
    /\ tick_speed = 0
    /\ tick_written = 0
    /\ cancel_at = "none"
    /\ cancel_kind = "none"
    /\ fatal_at = "none"
    /\ calls = << >>
    /\ __init__

VerifyNext == VerifyRead \/ VerifyTimeout \/ VerifyReturn

VerifySpec == VerifyInit /\ [][VerifyNext]_vars /\ WF_vars(VerifyNext)

-----------------------------------------------------------------------------
(* mqtt_client.py: one ComputerControllerMQTT object.  Its methods are     *)
(* called from one thread; on_connect and on_disconnect are called by the  *)
(* client's network thread, at any moment once a client exists.            *)

\* mqtt.MQTT_ERR_SUCCESS, and the rc of an accepted connection
MQTT_ERR_SUCCESS == 0
\* an rc that is not success: on_connect's "not authorised", publish's
\* MQTT_ERR_NO_CONN
ConnectCodes == { 0, 5 }
PublishCodes == { MQTT_ERR_SUCCESS, 4 }

MqttInit ==
    /\ pc = "call_mqtt"
    /\ low = 70
    /\ high = 80
    /\ Idle
    /\ calls = << >>
    /\ __init__

\* a faulty callback that takes every rc for a connection; C20 must reject it
on_connect_AnyCode(rc) ==
    /\ client # "None"
    /\ connected' = TRUE
    /\ established' = (rc = 0 \/ established)
    /\ UNCHANGED << client, mq_pc, command, published, returned, checked,
                    base, run_vars, calls >>

\* if rc == 0: self.connected = True; client.subscribe(...)
on_connect(rc) ==
    /\ client # "None"
    /\ IF rc = 0
       THEN connected' = TRUE /\ established' = TRUE
       ELSE UNCHANGED << connected, established >>
    /\ UNCHANGED << client, mq_pc, command, published, returned, checked,
                    base, run_vars, calls >>

OnConnect == \E rc \in ConnectCodes : on_connect(rc)

\* self.connected = False
on_disconnect ==
    /\ client # "None"
    /\ connected' = FALSE
    /\ established' = FALSE
    /\ UNCHANGED << client, mq_pc, command, published, returned, checked,
                    base, run_vars, calls >>

\* connect(): self.client = mqtt.Client(); ...connect(); loop_start(), or an
\* exception on the way, which returns False
connect ==
    /\ mq_pc = "idle"
    /\ client' = "Client"
    /\ mq_pc' \in { "connect_wait", "idle" }
    /\ UNCHANGED << connected, command, published, returned, checked, base,
                    established, run_vars, calls >>

\* connect(): the loop that waits for self.connected ends, at the flag or
\* at its timeout; return self.connected
ConnectReturn ==
    /\ mq_pc = "connect_wait"
    /\ mq_pc' = "idle"
    /\ UNCHANGED << client, connected, command, published, returned,
                    checked, base, established, run_vars, calls >>

\* disconnect(): if self.client: self.client.loop_stop()
disconnect ==
    /\ mq_pc = "idle"
    /\ client # "None"
    /\ mq_pc' = "loop_stopped"
    /\ UNCHANGED << client, connected, command, published, returned,
                    checked, base, established, run_vars, calls >>

\* disconnect(): self.client.disconnect(); self.connected = False
DisconnectFlag ==
    /\ mq_pc = "loop_stopped"
    /\ connected' = FALSE
    /\ established' = FALSE
    /\ mq_pc' = "idle"
    /\ UNCHANGED << client, command, published, returned, checked, base,
                    run_vars, calls >>

\* send_command(command): if not self.connected: return False
send_command(cmd) ==
    /\ mq_pc = "idle"
    /\ Len(published) < MaxPublishes
    /\ command' = cmd
    /\ checked' = connected
    /\ base' = Len(published)
    /\ IF ~connected
       THEN returned' = "False" /\ UNCHANGED mq_pc
       ELSE returned' = "none" /\ mq_pc' = "publish"
    /\ UNCHANGED << client, connected, published, established, run_vars,
                    calls >>

\* result = self.client.publish(self.control_topic, payload); return True
\* when result.rc == mqtt.MQTT_ERR_SUCCESS, else False; an exception
\* returns False
Publish ==
    /\ mq_pc = "publish"
    /\ mq_pc' = "idle"
    /\ \/ \E rc \in PublishCodes :
            /\ published' = Append(published, << command, rc >>)
            /\ returned' = IF rc = MQTT_ERR_SUCCESS THEN "True" ELSE "False"
       \/ /\ returned' = "False"
          /\ UNCHANGED published
    /\ UNCHANGED << client, connected, command, checked, base, established,
                    run_vars, calls >>

power_on == send_command("power_on")
power_off == send_command("power_off")
reset == send_command("reset")
toggle_child_lock == send_command("toggle_child_lock")
toggle_buzzer == send_command("toggle_buzzer")

MqttNext ==
    \/ OnConnect
    \/ on_disconnect
    \/ connect
    \/ ConnectReturn
    \/ disconnect
    \/ DisconnectFlag
    \/ power_on
    \/ power_off
    \/ reset
    \/ toggle_child_lock
    \/ toggle_buzzer
    \/ Publish

MqttSpec == MqttInit /\ [][MqttNext]_vars

TypeOK ==
    /\ pc \in { "main", "start", "open", "verify", "verify_loop",
                "verify_join", "check_identity", "gpu_init", "init_send",
                "read", "decide", "send", "sleep", "drain", "close",
                "shutdown", "exited", "call_send", "call_policy",
                "call_locate", "enumerated", "located", "call_mqtt" }
    /\ ser \in { "none", "open", "closed" }
    /\ gpu \in { "none", "init", "shutdown" }
    /\ identity \in BOOLEAN
    /\ current_speed \in 0..100
    /\ ticks \in 0..MaxTicks
    /\ clock \in 0..(Deadline - 1 + ReadSteps)
    /\ drained \in BOOLEAN
    /\ exit_status \in { "running", "exit1", "exception", "returned",
                         "KeyboardInterrupt", "killed" }

-----------------------------------------------------------------------------
(* Vocabulary of the properties *)

LastWritten == written[Len(written)]

\* the wire form of a duty command, written out independently of FanCommand
DutyCommand(percent) == "gpufan " \o ToString(percent) \o "\n"

\* the run left the loop through the finally block
LeftLoop ==
    \/ fatal_at \in { "read", "send", "drain", "close" }
    \/ cancel_kind = "SIGINT" /\ cancel_at \in TryPcs

\* a session existed when the fatal condition struck
FatalWithSession ==
    fatal_at \in { "check_identity", "gpu_init", "init_send", "read", "send" }

-----------------------------------------------------------------------------
(* C1: when a cancellation signal (SIGINT or SIGTERM) ends the ticks of a   *)
(* verified run, arriving at any point of a tick, the last duty command    *)
(* written to the device is "gpufan 0".                                     *)
(* The code does this for SIGINT only: SIGTERM ends the process with the   *)
(* fan at its last commanded duty.                                          *)
C1_CancelledRunEndsAtZero ==
    (pc = "exited" /\ cancel_at \in TryPcs) => LastWritten = DutyCommand(0)

-----------------------------------------------------------------------------
(* C2: every fatal condition that strikes while a session exists (identity *)
(* check failed, sensor initialisation failed, initial send failed, error  *)
(* inside the loop) sends a duty-0 command before the process exits.       *)
(* The code drains only for errors raised inside the try block.            *)
C2_FatalConditionDrains ==
    (pc = "exited" /\ FatalWithSession /\ cancel_at = "none") =>
        (drained /\ LastWritten = DutyCommand(0))

-----------------------------------------------------------------------------
(* C3: when verify_identity returns False on an opened session, the run    *)
(* ends without entering the loop and the session is closed before the     *)
(* process ends.  The code exits with the session still open.              *)
C3_IdentityFailureClosesSession ==
    (pc = "exited" /\ fatal_at = "check_identity") =>
        (ticks = 0 /\ gpu = "none" /\ ser = "closed")

-----------------------------------------------------------------------------
(* C4: nothing but the identity request is written to a session before     *)
(* verify_identity has returned True on it; a duty command is preceded by  *)
(* endpoint resolution, open and the identity request, in that order, and  *)
(* a run whose resolution, open or verification fails writes no duty       *)
(* command at all.                                                          *)
C4_NoDutyBeforeVerified ==
    /\ written # << >> =>
          /\ port # NoPort
          /\ ser # "none"
          /\ written[1] = IDENTITY_COMMAND
    /\ \A i \in 1..Len(written) :
          written[i] # IDENTITY_COMMAND => (i > 1 /\ identity)
    /\ fatal_at \in { "main", "start", "open", "verify", "check_identity" } =>
          \A i \in 1..Len(written) : written[i] = IDENTITY_COMMAND

C4_Witness ==
    /\ pc = "read"
    /\ identity
    /\ written = << IDENTITY_COMMAND, DutyCommand(0) >>

-----------------------------------------------------------------------------
(* C5: at the end of every tick, with desired = compute(reading, low,      *)
(* high) and last = the duty tracked when the tick began: if               *)
(* |desired - last| >= 2 exactly one command was written, it carries       *)
(* desired, and the tracked duty is desired; otherwise nothing was written *)
(* and the tracked duty is unchanged.                                       *)
C5_DeadbandDispatch ==
    pc = "sleep" =>
        LET desired == _calculate_speed(temp, low, high)
            sent    == Len(written) - tick_written
        IN  IF Abs(desired - tick_speed) >= 2
            THEN /\ sent = 1
                 /\ LastWritten = DutyCommand(desired)
                 /\ current_speed = desired
            ELSE /\ sent = 0
                 /\ current_speed = tick_speed

\* a tick that wrote nothing although the computed duty moved by one point
C5_Witness ==
    /\ pc = "sleep"
    /\ Len(written) = tick_written
    /\ Abs(_calculate_speed(temp, low, high) - tick_speed) = 1
    /\ current_speed = tick_speed

-----------------------------------------------------------------------------
(* C6: send_fan_speed writes "gpufan " followed by max(0, min(100, p)) and *)
(* a newline for every integer p, so -5 goes out as 0 and 150 as 100, and  *)
(* every duty command written in any run carries a percent in 0..100.      *)
C6_ClampedCommand ==
    /\ \A i \in 1..Len(written) :
          \/ written[i] = IDENTITY_COMMAND
          \/ \E n \in 0..100 : written[i] = DutyCommand(n)
    /\ (written # << >> /\ LastWritten # IDENTITY_COMMAND) =>
          /\ speed_arg < 0 => LastWritten = "gpufan 0\n"
          /\ speed_arg > 100 => LastWritten = "gpufan 100\n"
          /\ speed_arg \in 0..100 => LastWritten = DutyCommand(speed_arg)

\* send_fan_speed(ser, -5) then send_fan_speed(ser, 150) have been written
C6_Witness ==
    /\ pc = "call_send"
    /\ speed_arg = 150
    /\ written = << "gpufan 0\n", "gpufan 100\n" >>

-----------------------------------------------------------------------------
(* C7: when the sensor read fails on a tick, the tick is skipped: nothing  *)
(* is written, the tracked duty keeps its value and the loop goes on.      *)
(* In the code the error leaves the loop through the finally block.        *)
C7_ReadFailureSkipsTick ==
    (fatal_at = "read" /\ cancel_at = "none") =>
        /\ pc \in TryPcs
        /\ ~drained
        /\ current_speed = tick_speed
        /\ Len(written) = tick_written

-----------------------------------------------------------------------------
(* C8: when the write of a duty command fails during a tick, the run does  *)
(* not end: the loop goes on with the next tick.                            *)
(* In the code the error leaves the loop through the finally block.        *)
C8_WriteFailureContinues ==
    (fatal_at = "send" /\ cancel_at = "none") => pc \in TryPcs

-----------------------------------------------------------------------------
(* C9: every run that leaves the loop ends with the session closed and the *)
(* sensor provider shut down; a failure of the drain send or of close does *)
(* not keep the remaining release steps from running.                      *)
(* In the code a failing drain send skips close and shutdown.              *)
C9_ReleasedOnEveryExit ==
    (pc = "exited" /\ LeftLoop) => (ser = "closed" /\ gpu = "shutdown")

-----------------------------------------------------------------------------
(* C10 *)

\* the line that readline() returned on the i-th pass, decoded and stripped
ReadLine(i) == DecodedLine(rx_read[i])

\* no line equal to "OK" was read before the i-th
BeforeOK(i) == \A j \in 1..(i - 1) : ReadLine(j) # OK_LINE

\* the i-th line had arrived when the timeout elapsed; only the last read,
\* begun before the deadline, can return after it
ArrivedInTime(i) == i < Len(rx_read) \/ clock <= Deadline

NameInLine(i) == ReadLine(i) # << >> /\ Contains(ReadLine(i), DEVICE_NAME)

(* C10 as stated: verify_identity returns True iff "ComputerController"    *)
(* occurs in a non-empty line received no later than the first line equal  *)
(* to "OK", or no later than the timeout when no "OK" arrives.             *)
(* The code tests the deadline only before a read, so a line that arrives  *)
(* after the timeout, during a read begun before it, still counts.         *)
C10_NameBeforeOKOrTimeout ==
    pc = "check_identity" =>
        (identity <=> \E i \in 1..Len(rx_read) :
                          NameInLine(i) /\ BeforeOK(i) /\ ArrivedInTime(i))

(* C10 amended: verify_identity returns True iff "ComputerController"      *)
(* occurs in a non-empty line (decoded, surrounding whitespace stripped)   *)
(* returned by a read that began before the timeout elapsed, no later than *)
(* the first line equal to "OK"; empty lines are skipped and lines after   *)
(* "OK" are not read.  ["", "ComputerController v1.2", "OK"] gives True,   *)
(* ["garbage", "OK"] gives False.                                           *)
C10_NameBeforeOKOrLastRead ==
    pc = "check_identity" =>
        /\ identity <=> \E i \in 1..Len(rx_read) : NameInLine(i) /\ BeforeOK(i)
        /\ \A i \in 1..Len(rx_read) : BeforeOK(i)
        /\ clock < Deadline + ReadSteps
        /\ rx_read = << LineEmpty, LineName, OK_LINE >> => identity
        /\ rx_read = << LineGarbage, OK_LINE >> => ~identity

\* the name arrived after the timeout, in the last read, and was accepted
C10_Witness ==
    /\ pc = "check_identity"
    /\ identity
    /\ clock > Deadline
    /\ rx_read = << LineEmpty, LineGarbage, LineName >>

-----------------------------------------------------------------------------
(* C11 *)

\* nearest integer to num/den for den > 0, an exact half upward
RoundHalfUp(num, den) == (2 * num + den) \div (2 * den)

\* nearest integer to num/den for den > 0, an exact half to even
RoundHalfEven(num, den) ==
    LET q == num \div den
        r == num % den
    IN  IF 2 * r < den THEN q
        ELSE IF 2 * r > den THEN q + 1
        ELSE IF q % 2 = 0 THEN q ELSE q + 1

\* the curve of the claim: the two ends, and between them the exact
\* quotient 100 * (t - lo) / (hi - lo) rounded by the given rule
NearestHalfUp(t, lo, hi) ==
    IF t <= lo THEN 0
    ELSE IF t >= hi THEN 100
    ELSE RoundHalfUp(100 * (t - lo), hi - lo)

NearestHalfEven(t, lo, hi) ==
    IF t <= lo THEN 0
    ELSE IF t >= hi THEN 100
    ELSE RoundHalfEven(100 * (t - lo), hi - lo)

(* C11: _calculate_speed returns 0 at or below low, 100 at or above high,  *)
(* and in between the integer nearest to 100 * (temp - low) / (high - low), *)
(* an exact half resolved by one rule for every input: every call made     *)
(* agrees with rounding halves up, or every call made agrees with rounding *)
(* halves to even.                                                          *)
(* The code computes the quotient and the product in double precision:     *)
(* with low = 70 and high = 110 the reading 93 gives 57, where the exact   *)
(* value is 57.5 and either rule gives 58.                                 *)
C11_NearestWithOneTieRule ==
    pc = "call_policy" =>
        \/ \A i \in 1..Len(calls) :
              calls[i][2] = NearestHalfUp(calls[i][1], low, high)
        \/ \A i \in 1..Len(calls) :
              calls[i][2] = NearestHalfEven(calls[i][1], low, high)

-----------------------------------------------------------------------------
(* C12: _calculate_speed is monotone in the reading: for thresholds        *)
(* low < high and readings r1 < r2, the result at r1 is at most the result *)
(* at r2, across both thresholds and across the readings whose exact value *)
(* is a half.                                                               *)
C12_Monotone ==
    pc = "call_policy" =>
        \A i, j \in 1..Len(calls) :
            calls[i][1] < calls[j][1] => calls[i][2] <= calls[j][2]

\* a reading whose exact value is the half 57.5, then the next reading up
C12_Witness ==
    /\ pc = "call_policy"
    /\ high - low = 40
    /\ Len(calls) = 2
    /\ calls[1] = << low + 23, 57 >>
    /\ calls[2] = << low + 24, 60 >>

-----------------------------------------------------------------------------
(* C13 *)

\* a port that reports both identifiers, the pair being a known one
SignatureMatch(p) ==
    /\ p.vid # None
    /\ p.pid # None
    /\ \E c \in ESP32_VID_PID_CANDIDATES : c[1] = p.vid /\ c[2] = p.pid

\* a port whose device name contains "ttyUSB" or "ttyACM"
NameOnlyMatch(p) ==
    \E i \in 1..(Len(p.device) - 5) :
        SubSeq(p.device, i, i + 5) \in { TTYUSB, TTYACM }

\* index of the first port of the enumeration that satisfies a test
Earliest(S) == CHOOSE i \in S : \A j \in S : i <= j

(* C13: find_esp32_serial_port returns the device of the first port, in    *)
(* enumeration order, that reports a known VID/PID pair, even when a port  *)
(* matching by name only comes earlier; with no such port, the first port  *)
(* whose name contains "ttyUSB" or "ttyACM"; with neither, None, without   *)
(* raising.  A port lacking its vendor or product identifier is never a    *)
(* VID/PID match.                                                           *)
C13_LocateOrder ==
    pc = "located" =>
        LET sig == { i \in 1..Len(ports) : SignatureMatch(ports[i]) }
            nam == { i \in 1..Len(ports) : NameOnlyMatch(ports[i]) }
        IN  /\ sig # {} => port = ports[Earliest(sig)].device
            /\ (sig = {} /\ nam # {}) => port = ports[Earliest(nam)].device
            /\ (sig = {} /\ nam = {}) =>
                    (port = NoPort /\ exit_status = "running")
            /\ \A i \in sig : ports[i].vid # None /\ ports[i].pid # None

\* a name-only match first, then a port with a known vendor but no product,
\* then a known pair on a device the name heuristic would not take
C13_Witness ==
    /\ pc = "located"
    /\ ports = << Port(DevACM1, None, None), Port(DevUSB0, "1A86", None),
                  Port(DevS0, "10C4", "EA60") >>
    /\ port = DevS0

-----------------------------------------------------------------------------
(* C14: whenever low >= high, the program ends with a configuration error  *)
(* before anything is initialised: no port is searched for or opened and   *)
(* nothing is written, whether it was started from __main__ or by a call   *)
(* of run(port, high, low).                                                *)
(* Only __main__ compares the thresholds: run() called with low >= high    *)
(* goes on to find the port, open it and write to it.                      *)
C14_BadThresholdsNeverStart ==
    low >= high =>
        /\ pc \in { "main", "start", "exited" }
        /\ ser = "none"
        /\ written = << >>
        /\ (pc = "exited" /\ cancel_at = "none") =>
                (exit_status = "exit1" /\ fatal_at = "main")

-----------------------------------------------------------------------------
(* C15 *)

\* a tick that read 75 has completed, the tick before it having read 74,
\* with the thresholds 70 and 80
Read74Then75 ==
    /\ low = 70
    /\ high = 80
    /\ ticks >= 2
    /\ last_temp = 74
    /\ temp = 75
    /\ pc = "sleep"

(* C15 as stated: with thresholds 70 and 80 and two consecutive ticks      *)
(* reading 74 and then 75, the second tick writes no command.              *)
(* _calculate_speed gives 40 and then 50: the change of 10 is outside the  *)
(* deadband and the second tick writes.                                    *)
C15_SecondTickSilent ==
    Read74Then75 => Len(written) = tick_written

(* C15 amended: with thresholds 70 and 80 and two consecutive ticks        *)
(* reading 74 and then 75, the second tick starts from the speed 40 and   *)
(* writes exactly one command, "gpufan 50".                                *)
C15_SecondTickSends50 ==
    Read74Then75 =>
        /\ tick_speed = 40
        /\ Len(written) = tick_written + 1
        /\ LastWritten = DutyCommand(50)
        /\ current_speed = 50

C15_Witness ==
    /\ Read74Then75
    /\ ticks = 2
    /\ written = << IDENTITY_COMMAND, DutyCommand(0), DutyCommand(40),
                    DutyCommand(50) >>

-----------------------------------------------------------------------------
(* C16 *)

\* current_speed is a percentage; the loop starts at 0 with "gpufan 0"
\* written before the first reading; within a tick current_speed is what
\* it was when the tick started or, once decided, the tick's desired speed
TrackedDutyBasics ==
    /\ current_speed \in 0..100
    /\ (pc = "read" /\ ticks = 0) =>
            (current_speed = 0 /\ LastWritten = DutyCommand(0))
    /\ (pc \in TryPcs /\ ticks >= 1) =>
            \/ current_speed = tick_speed
            \/ pc # "decide" /\ current_speed = desired_speed

-----------------------------------------------------------------------------
(* C17: for thresholds low < high and any readings, after every completed  *)
(* tick that read at or below low the last command written is "gpufan 0",  *)
(* and after every completed tick that read at or above high it is         *)
(* "gpufan 100".                                                            *)
(* The deadband also applies at the two ends: with the speed at 1, a       *)
(* reading at or below low asks for 0, a change of 1, and nothing is       *)
(* written.                                                                 *)
C17_ThresholdsReachEnds ==
    (pc = "sleep" /\ low < high) =>
        /\ temp <= low => LastWritten = DutyCommand(0)
        /\ temp >= high => LastWritten = DutyCommand(100)

-----------------------------------------------------------------------------
(* C18 *)

\* the most clock steps that can have elapsed when a read returns: a read
\* begins before the deadline and takes at most the read timeout
LatestReturn == Deadline - 1 + ReadSteps

\* while verify_identity runs: the clock is within the deadline plus one
\* read; no read has returned a line "OK" while the loop goes on, and after
\* the loop only the last read can have returned it
VerifyBounded ==
    /\ pc \in { "verify_loop", "verify_join", "check_identity" } =>
            clock <= LatestReturn
    /\ pc = "verify_loop" =>
            \A i \in 1..Len(rx_read) : DecodedLine(rx_read[i]) # OK_LINE
    /\ pc \in { "verify_join", "check_identity" } =>
            \A i \in 1..(Len(rx_read) - 1) : DecodedLine(rx_read[i]) # OK_LINE

(* C18: verify_identity always returns.  Whether the device is silent,      *)
(* sends only empty lines, or sends lines none of which is "OK", the loop  *)
(* ends once the timeout has elapsed, each read taking at most the read    *)
(* timeout; and it ends at the first line equal to "OK".                   *)
C18_VerifyTerminates ==
    /\ []VerifyBounded
    /\ (pc = "verify_loop") ~> (pc = "check_identity")

\* the device has stayed silent: two reads have timed out, the deadline has
\* passed and verify_identity has returned
C18_Witness ==
    /\ pc = "check_identity"
    /\ rx_read = << LineEmpty, LineEmpty >>
    /\ response = << >>
    /\ clock = Deadline
    /\ ~identity

-----------------------------------------------------------------------------
(* C19: after every completed tick of the loop, for thresholds low < high  *)
(* and any readings, the percentage of the last command written differs    *)
(* by at most 1 from _calculate_speed of the tick's reading.               *)
C19_WithinOneOfPolicy ==
    (pc = "sleep" /\ low < high) =>
        \E d \in 0..100 :
            /\ LastWritten = DutyCommand(d)
            /\ Abs(_calculate_speed(temp, low, high) - d) <= 1

\* a tick inside the deadband: 54 was written for the reading 74, the next
\* tick reads 75, which asks for 55, and writes nothing
C19_Witness ==
    /\ pc = "sleep"
    /\ low = 20
    /\ high = 120
    /\ last_temp = 74
    /\ temp = 75
    /\ desired_speed = 55
    /\ LastWritten = DutyCommand(54)
    /\ Len(written) = tick_written

-----------------------------------------------------------------------------
(* C20: however on_connect and on_disconnect interleave with send_command, *)
(* disconnect and the command helpers: a send_command whose test read      *)
(* connected as False has published nothing and returned False; a          *)
(* send_command that returned True has made one call of publish, which     *)
(* reported MQTT_ERR_SUCCESS; and connected is True only after an          *)
(* on_connect with rc 0 that no on_disconnect and no disconnect() has      *)
(* followed.                                                                *)
C20_SendOnlyWhenConnected ==
    /\ (returned # "none" /\ ~checked) =>
            (returned = "False" /\ Len(published) = base)
    /\ (mq_pc = "publish" \/ returned = "True") => checked
    /\ returned = "True" =>
            /\ Len(published) = base + 1
            /\ published[Len(published)] = << command, MQTT_ERR_SUCCESS >>
    /\ connected => established

\* the flag was True at the test and on_disconnect came before publish,
\* which reported success: the call returned True
C20_Witness ==
    /\ mq_pc = "idle"
    /\ returned = "True"
    /\ checked
    /\ ~connected
    /\ published = << << "power_on", MQTT_ERR_SUCCESS >> >>

====
